---- MODULE Spec2Model ----
(***************************************************************************)
(* Sample-by-sample reverb engine of lib/delays.py and lib/reverbs.py:     *)
(* RingBuffer, Delay, the recursive filters built on Delay, and the        *)
(* SchroederReverb network.                                                *)
(*                                                                         *)
(* Samples and coefficients are integers: every recurrence of the code is  *)
(* a polynomial in the inputs and the coefficients (no division), so the   *)
(* integer model follows the same data flow as the floating point code.    *)
(***************************************************************************)
EXTENDS Integers, Sequences, FiniteSets, TLC

VARIABLES rb, delay, filter, reverb, mtap, ops, err

vars == <<rb, delay, filter, reverb, mtap, ops, err>>

(***************************************************************************)
(* Bounds of the model.                                                    *)
(***************************************************************************)
MaxLen == 3
MaxSample == 1
MaxOps == 7
MaxFilterOps == 7
MaxStages == 2
MaxReverbOps == 4
MaxTaps == 2
MaxIndex == 4

Samples == 0..MaxSample
Lengths == 1..MaxLen

\* An object that has not been constructed.
Unbuilt == [kind |-> "none"]

(***************************************************************************)
(* The log of the calls made on the object under test since construction.  *)
(***************************************************************************)
Call(name, x) == [op |-> name, arg |-> x]

(***************************************************************************)
(* RingBuffer                                                              *)
(***************************************************************************)
RingBuffer_init(length) ==
    [kind          |-> "RingBuffer",
     length        |-> length,
     buffer        |-> [i \in 0..(length - 1) |-> 0],
     write_pointer |-> 0,
     read_pointer  |-> 1,
     pushes        |-> 0]

\* push on a buffer of capacity 0: the store at index 0 is out of range
\* (IndexError); with the bounds check compiled out the store is undefined
\* and the modulo by length 0 raises ZeroDivisionError.
PushErrors == {"IndexError", "ZeroDivisionError"}

\* A push that leaves read_pointer on the slot just written.
RingBuffer_push_stale_read(b, input_) ==
    LET wp == (b.write_pointer + 1) % b.length
    IN  [b EXCEPT !.buffer[b.write_pointer] = input_,
                  !.write_pointer = wp,
                  !.read_pointer = b.write_pointer,
                  !.pushes = @ + 1]

\* A push that advances write_pointer before it stores the sample.
RingBuffer_push_advance_first(b, input_) ==
    LET wp == (b.write_pointer + 1) % b.length
    IN  [b EXCEPT !.buffer[wp] = input_,
                  !.write_pointer = wp,
                  !.read_pointer = (wp + 1) % b.length,
                  !.pushes = @ + 1]

\* The field pushes is not a field of the class: it counts the calls of
\* push the buffer has received.
RingBuffer_push(b, input_) ==
    LET wp == (b.write_pointer + 1) % b.length
    IN  [b EXCEPT !.buffer[b.write_pointer] = input_,
                  !.write_pointer = wp,
                  !.read_pointer = (wp + 1) % b.length,
                  !.pushes = @ + 1]

\* n successive push(input_) calls, the loop body of every clear().
RECURSIVE PushTimes(_, _, _)
PushTimes(b, input_, n) ==
    IF n = 0 THEN b ELSE PushTimes(RingBuffer_push(b, input_), input_, n - 1)

\* A clear() whose loop stops one push short.
RingBuffer_clear_short(b) == PushTimes(b, 0, b.length - 1)

RingBuffer_clear(b) == PushTimes(b, 0, b.length)

\* An index computation that wraps only indices below zero.
RingBuffer_slot_unwrapped(b, index) ==
    IF index < 0
    THEN (b.write_pointer - index) % b.length
    ELSE b.read_pointer + index

\* The slot of the backing store that __getitem__(index) accesses.
RingBuffer_slot(b, index) ==
    IF index < 0
    THEN (b.write_pointer - index) % b.length
    ELSE (b.read_pointer + index) % b.length

RingBuffer_getitem(b, index) == b.buffer[RingBuffer_slot(b, index)]

(***************************************************************************)
(* Specification of one RingBuffer of capacity 1..MaxLen under push and    *)
(* clear.                                                                  *)
(***************************************************************************)
Init ==
    /\ \E n \in Lengths : rb = RingBuffer_init(n)
    /\ delay = Unbuilt
    /\ filter = Unbuilt
    /\ reverb = Unbuilt
    /\ mtap = Unbuilt
    /\ ops = <<>>
    /\ err = "none"

Push ==
    /\ rb.kind = "RingBuffer"
    /\ err = "none"
    /\ Len(ops) < MaxOps
    /\ \E x \in Samples :
        /\ ops' = Append(ops, Call("push", x))
        /\ IF rb.length = 0
           THEN /\ err' \in PushErrors
                /\ rb' = rb
           ELSE /\ err' = err
                /\ rb' = RingBuffer_push(rb, x)
    /\ UNCHANGED <<delay, filter, reverb, mtap>>

Clear ==
    /\ rb.kind = "RingBuffer"
    /\ err = "none"
    /\ Len(ops) < MaxOps
    /\ ops' = Append(ops, Call("clear", 0))
    /\ rb' = RingBuffer_clear(rb)
    /\ UNCHANGED <<delay, filter, reverb, mtap, err>>

Next == Push \/ Clear

Spec == Init /\ [][Next]_vars

(***************************************************************************)
(* The values pushed into the buffer since construction, oldest first: a   *)
(* clear() of a buffer of capacity n is n pushes of 0.                     *)
(***************************************************************************)
RECURSIVE Zeros(_)
Zeros(n) == IF n = 0 THEN <<>> ELSE <<0>> \o Zeros(n - 1)

RECURSIVE PushedOf(_, _)
PushedOf(log, n) ==
    IF log = <<>> THEN <<>>
    ELSE LET c == log[Len(log)]
             before == PushedOf(SubSeq(log, 1, Len(log) - 1), n)
         IN  IF c.op = "clear" THEN before \o Zeros(n)
             ELSE before \o <<c.arg>>

Pushed == PushedOf(ops, rb.length)

\* The k-th most recently pushed value, k = 1 for the last one.
Recent(k) == Pushed[Len(Pushed) - k + 1]

Indices == (0 - MaxIndex)..MaxIndex

LastOp == IF ops = <<>> THEN "none" ELSE ops[Len(ops)].op

(***************************************************************************)
(* Claims about RingBuffer, checked under Spec.                            *)
(***************************************************************************)

\* C1: after any sequence of pushes followed by clear(), every indexed read
\* buffer[i], for non-negative and for negative i, returns 0.
C1_ClearReadsZero ==
    LastOp = "clear" => \A i \in Indices : RingBuffer_getitem(rb, i) = 0

\* Witness of C1: clear() has just run on a buffer whose last push before it
\* was a non-zero sample.
C1_Witness ==
    /\ Len(ops) >= 2
    /\ LastOp = "clear"
    /\ ops[Len(ops) - 1].op = "push"
    /\ ops[Len(ops) - 1].arg # 0
    /\ rb.length >= 2

\* C2: age-from-oldest addressing: once at least N values were pushed,
\* buffer[i] for 0 <= i < N is the sample written i steps after the oldest
\* retained sample (buffer[0] the first, buffer[N-1] the last of the last N
\* pushed values).
C2_AgeFromOldest ==
    Len(Pushed) >= rb.length =>
        \A i \in 0..(rb.length - 1) :
            RingBuffer_getitem(rb, i) = Pushed[Len(Pushed) - rb.length + 1 + i]

\* C3: age-from-newest addressing: once at least N values were pushed,
\* buffer[-k] for 1 <= k <= N is the k-th most recently pushed value.
C3_AgeFromNewest ==
    Len(Pushed) >= rb.length =>
        \A k \in 1..rb.length : RingBuffer_getitem(rb, 0 - k) = Recent(k)

\* The call log of the ring buffer tests: clear(), then one or two fills of N
\* pushes each.
FilledAfterClear ==
    /\ Len(ops) \in {rb.length + 1, 2 * rb.length + 1}
    /\ ops[1].op = "clear"
    /\ \A j \in 2..Len(ops) : ops[j].op = "push"

\* C4: as the ring buffer tests assert, after clear() and one or two fills of
\* N pushes, buffer[i] for 0 <= i < N is the (i+1)-th most recently pushed
\* value.
C4_TestsNewestFirst ==
    FilledAfterClear =>
        \A i \in 0..(rb.length - 1) : RingBuffer_getitem(rb, i) = Recent(i + 1)

\* The step of one push(x) call: x is the argument the call log records.
IsPushStep == Len(ops') = Len(ops) + 1 /\ ops'[Len(ops')].op = "push"

\* The step of one clear() call.
IsClearStep == Len(ops') = Len(ops) + 1 /\ ops'[Len(ops')].op = "clear"

\* Indices of magnitude up to more than twice the capacity.
WideIndices == (0 - (2 * rb.length + 1))..(2 * rb.length + 1)

Slots == 0..(rb.length - 1)

\* C11: in every state reachable by construction, push and clear, the slot
\* push stores into and the slot an indexed read accesses, for any index
\* (positive, negative, of magnitude larger than N), are in 0..N-1.
C11_SlotsInRange ==
    /\ rb.write_pointer \in Slots
    /\ \A i \in WideIndices : RingBuffer_slot(rb, i) \in Slots

\* Witness of C11: the pointers of a buffer of capacity >= 2 have wrapped:
\* the last push stored into the last slot but one and read_pointer is back
\* on slot 0.
C11_Witness ==
    /\ rb.length >= 2
    /\ Len(ops) > rb.length
    /\ LastOp = "push"
    /\ rb.write_pointer = rb.length - 1
    /\ rb.read_pointer = 0

\* C13: push(sample) stores sample into exactly the slot at the old
\* write_pointer and leaves every other slot unchanged, advances
\* write_pointer to (write_pointer + 1) mod N, and leaves
\* read_pointer = (write_pointer + 1) mod N.
C13_PushFrame ==
    [][IsPushStep =>
        /\ rb'.buffer[rb.write_pointer] = ops'[Len(ops')].arg
        /\ \A s \in Slots \ {rb.write_pointer} : rb'.buffer[s] = rb.buffer[s]
        /\ rb'.pushes = rb.pushes + 1
        /\ rb'.write_pointer = (rb.write_pointer + 1) % rb.length
        /\ rb'.read_pointer = (rb'.write_pointer + 1) % rb.length]_vars

\* Witness of C13: a non-zero sample has just been pushed into a buffer of
\* capacity >= 2 that had wrapped before and still holds a non-zero sample
\* in another slot.
C13_Witness ==
    /\ rb.length >= 2
    /\ Len(ops) > rb.length
    /\ LastOp = "push"
    /\ ops[Len(ops)].arg # 0
    /\ \E s \in Slots :
        /\ s # (rb.write_pointer + rb.length - 1) % rb.length
        /\ rb.buffer[s] # 0

\* The sliding window: once at least N values were pushed, the slot j steps
\* after write_pointer holds the j-th of the last N pushed values, so the
\* slot at write_pointer holds the oldest and the slot before it the newest.
WindowRetained ==
    Len(Pushed) >= rb.length =>
        \A j \in Slots :
            rb.buffer[(rb.write_pointer + j) % rb.length] =
                Pushed[Len(Pushed) - rb.length + 1 + j]

\* C18: after any sequence of at least N pushes the N slots hold exactly the
\* last N pushed values, the oldest at write_pointer and the newest at
\* (write_pointer - 1) mod N; clear() returns write_pointer to the value it
\* had before the call.
C18_SlidingWindow ==
    /\ []WindowRetained
    /\ [][IsClearStep => rb'.write_pointer = rb.write_pointer]_vars

\* Witness of C18: a buffer of capacity >= 2 was cleared while its
\* write_pointer was off slot 0, and a non-zero sample was pushed after.
C18_Witness ==
    /\ rb.length >= 2
    /\ LastOp = "push"
    /\ ops[Len(ops)].arg # 0
    /\ \E j \in 2..(Len(ops) - 1) :
        /\ ops[j].op = "clear"
        /\ Len(PushedOf(SubSeq(ops, 1, j - 1), rb.length)) % rb.length # 0

(***************************************************************************)
(* Delay                                                                   *)
(***************************************************************************)
SampleRates == {500, 1000}
DelayTimes == 1..MaxLen

\* int(delay_ms * (sample_rate / 1000.0)); exact for the rates of SampleRates.
Delay_length(sample_rate, delay_ms, delay_samples) ==
    IF delay_samples > 0 THEN delay_samples
    ELSE (delay_ms * sample_rate) \div 1000

\* A clear() whose loop runs delay_length - 1 times.
Delay_clear_short(d) ==
    [d EXCEPT !.delay_line = PushTimes(d.delay_line, 0, d.delay_length - 1)]

Delay_clear(d) ==
    [d EXCEPT !.delay_line = PushTimes(d.delay_line, 0, d.delay_length + 1)]

Delay_init(sample_rate, delay_ms, delay_samples) ==
    LET len == Delay_length(sample_rate, delay_ms, delay_samples)
    IN  Delay_clear([kind         |-> "Delay",
                     stereo       |-> FALSE,
                     output       |-> 0,
                     delay_length |-> len,
                     delay_line   |-> RingBuffer_init(len)])

\* A tick that writes its input before it reads the tap.
Delay_tick_write_first(d, input_) ==
    LET line == RingBuffer_push(d.delay_line, input_)
    IN  [d EXCEPT !.output = RingBuffer_getitem(line, 0 - 1),
                  !.delay_line = line]

Delay_tick(d, input_) ==
    [d EXCEPT !.output = RingBuffer_getitem(d.delay_line, 0 - 1),
              !.delay_line = RingBuffer_push(d.delay_line, input_)]

(***************************************************************************)
(* Specification of one Delay under tick and clear.                        *)
(***************************************************************************)
InitDelay ==
    /\ \E sr \in SampleRates, ms \in DelayTimes :
        /\ Delay_length(sr, ms, 0) >= 1
        /\ delay = Delay_init(sr, ms, 0)
    /\ rb = Unbuilt
    /\ filter = Unbuilt
    /\ reverb = Unbuilt
    /\ mtap = Unbuilt
    /\ ops = <<>>
    /\ err = "none"

TickDelay ==
    /\ delay.kind = "Delay"
    /\ Len(ops) < MaxOps
    /\ \E x \in Samples :
        /\ ops' = Append(ops, Call("tick", x))
        /\ delay' = Delay_tick(delay, x)
    /\ UNCHANGED <<rb, filter, reverb, mtap, err>>

ClearDelay ==
    /\ delay.kind = "Delay"
    /\ Len(ops) < MaxOps
    /\ ops' = Append(ops, Call("clear", 0))
    /\ delay' = Delay_clear(delay)
    /\ UNCHANGED <<rb, filter, reverb, mtap, err>>

NextDelay == TickDelay \/ ClearDelay

SpecDelay == InitDelay /\ [][NextDelay]_vars

\* The call log of an impulse response: tick(1), then only tick(0).
ImpulseLog ==
    /\ Len(ops) >= 1
    /\ ops[1] = Call("tick", 1)
    /\ \A j \in 2..Len(ops) : ops[j] = Call("tick", 0)

\* The index of the last tick, the first tick being tick 0.
TickIndex == Len(ops) - 1

(***************************************************************************)
(* Claims about Delay, checked under SpecDelay.                            *)
(***************************************************************************)

\* C5: a freshly constructed Delay of length D >= 1 fed a unit impulse at
\* tick 0 and zeros afterwards has output 1 after tick D and output 0 after
\* every other tick.
C5_DelayLatency ==
    ImpulseLog =>
        delay.output = (IF TickIndex = delay.delay_length THEN 1 ELSE 0)

\* C8: in every reachable state of a Delay the output produced by tick(x) is
\* the same for every input x: a tick's output never depends on its own
\* input.
C8_OutputIgnoresOwnInput ==
    \A x \in Samples, y \in Samples :
        Delay_tick(delay, x).output = Delay_tick(delay, y).output

\* Witness of C8: a tick with a non-zero input has just produced an output
\* that differs from that input, and the next tick will output a non-zero
\* sample whatever it is fed.
C8_Witness ==
    /\ LastOp = "tick"
    /\ ops[Len(ops)].arg # 0
    /\ delay.output # ops[Len(ops)].arg
    /\ \A x \in Samples : Delay_tick(delay, x).output # 0

(***************************************************************************)
(* Recursive filters.  The variable filter holds the filter under test;    *)
(* its field kind names its class.                                         *)
(***************************************************************************)
Coeffs == {0 - 2, 2}
Damps == {0, 2}

CombFilter_init(class, sample_rate, delay_ms, coeff) ==
    [kind   |-> class,
     delay  |-> Delay_init(sample_rate, delay_ms, 0),
     coeff  |-> coeff,
     output |-> 0]

\* A comb whose feedback path drops the gain.
CombFilter_tick_unit_gain(f, input_) ==
    LET delay_input == input_ + f.delay.output
    IN  [f EXCEPT !.output = f.delay.output,
                  !.delay = Delay_tick(f.delay, delay_input)]

CombFilter_tick(f, input_) ==
    LET delay_input == input_ + f.coeff * f.delay.output
    IN  [f EXCEPT !.output = f.delay.output,
                  !.delay = Delay_tick(f.delay, delay_input)]

CombFilter_clear(f) == [f EXCEPT !.delay = Delay_clear(f.delay)]

AllPassDelay_tick(f, input_) ==
    LET delay_input == input_ + f.coeff * f.delay.output
    IN  [f EXCEPT !.output = ((0 - 1) * f.coeff * delay_input)
                             + ((1 - f.coeff * f.coeff) * f.delay.output),
                  !.delay = Delay_tick(f.delay, delay_input)]

FeedbackLowPass_init(sample_rate, dampening) ==
    [kind   |-> "FeedbackLowPass",
     delay  |-> Delay_init(sample_rate, 0, 1),
     damp   |-> dampening,
     output |-> 0]

FeedbackLowPass_tick(f, input_) ==
    LET out == (f.damp * f.delay.output) + ((1 - f.damp) * input_)
    IN  [f EXCEPT !.output = out,
                  !.delay = Delay_tick(f.delay, out)]

FeedbackLowPass_clear(f) ==
    [f EXCEPT !.delay = Delay_clear(f.delay), !.output = 0]

LowpassFeedbackCombFilter_init(class, sample_rate, delay_ms, coeffs) ==
    [kind    |-> class,
     delay   |-> Delay_init(sample_rate, delay_ms, 0),
     lowpass |-> FeedbackLowPass_init(sample_rate, coeffs.dampening),
     fb_gain |-> coeffs.feedback_gain,
     output  |-> 0]

\* A comb that never ticks the lowpass of its feedback path.
LowpassFeedbackCombFilter_tick_no_lowpass(f, input_) ==
    LET out == f.delay.output
        delay_input == input_ + f.fb_gain * f.lowpass.output
    IN  [f EXCEPT !.output = out,
                  !.delay = Delay_tick(f.delay, delay_input)]

LowpassFeedbackCombFilter_tick(f, input_) ==
    LET out == f.delay.output
        delay_input == input_ + f.fb_gain * f.lowpass.output
    IN  [f EXCEPT !.output = out,
                  !.lowpass = FeedbackLowPass_tick(f.lowpass, out),
                  !.delay = Delay_tick(f.delay, delay_input)]

LowpassFeedbackCombFilter_clear(f) ==
    [f EXCEPT !.delay = Delay_clear(f.delay),
              !.lowpass = FeedbackLowPass_clear(f.lowpass),
              !.output = 0]

LowpassFeedbackAllPass_tick(f, input_) ==
    LET delay_input == input_ + f.fb_gain * f.lowpass.output
    IN  [f EXCEPT !.output = ((0 - 1) * f.fb_gain * delay_input)
                             + (1 - f.fb_gain * f.fb_gain) * f.delay.output,
                  !.lowpass = FeedbackLowPass_tick(f.lowpass,
                                                   f.delay.output * f.fb_gain),
                  !.delay = Delay_tick(f.delay, delay_input)]

(***************************************************************************)
(* Specification of one recursive filter of any of the five classes under  *)
(* tick and clear.                                                         *)
(***************************************************************************)
CombClasses == {"CombFilter", "AllPassDelay"}
LowpassCombClasses == {"LowpassFeedbackCombFilter", "LowpassFeedbackAllPass"}

InitFilter ==
    /\ \E sr \in SampleRates, ms \in DelayTimes, c \in Coeffs, d \in Damps :
        /\ Delay_length(sr, ms, 0) >= 1
        /\ \/ \E class \in CombClasses :
                filter = CombFilter_init(class, sr, ms, c)
           \/ filter = FeedbackLowPass_init(sr, d)
           \/ \E class \in LowpassCombClasses :
                filter = LowpassFeedbackCombFilter_init(class, sr, ms,
                            [dampening |-> d, feedback_gain |-> c])
    /\ rb = Unbuilt
    /\ delay = Unbuilt
    /\ reverb = Unbuilt
    /\ mtap = Unbuilt
    /\ ops = <<>>
    /\ err = "none"

\* tick(x) of the filter under test, by the tick method of its class.
TickFilter(class, x, after) ==
    /\ filter.kind = class
    /\ err = "none"
    /\ Len(ops) < MaxFilterOps
    /\ ops' = Append(ops, Call("tick", x))
    /\ filter' = after
    /\ UNCHANGED <<rb, delay, reverb, mtap, err>>

TickComb ==
    \E x \in Samples :
        TickFilter("CombFilter", x, CombFilter_tick(filter, x))

TickAllPass ==
    \E x \in Samples :
        TickFilter("AllPassDelay", x, AllPassDelay_tick(filter, x))

TickLowPass ==
    \E x \in Samples :
        TickFilter("FeedbackLowPass", x, FeedbackLowPass_tick(filter, x))

TickLowpassComb ==
    \E x \in Samples :
        TickFilter("LowpassFeedbackCombFilter", x,
                   LowpassFeedbackCombFilter_tick(filter, x))

TickLowpassAllPass ==
    \E x \in Samples :
        TickFilter("LowpassFeedbackAllPass", x,
                   LowpassFeedbackAllPass_tick(filter, x))

\* clear() of the filter under test, by the clear method its class inherits.
ClearFilter(classes, after) ==
    /\ filter.kind \in classes
    /\ err = "none"
    /\ Len(ops) < MaxFilterOps
    /\ ops' = Append(ops, Call("clear", 0))
    /\ filter' = after
    /\ UNCHANGED <<rb, delay, reverb, mtap, err>>

ClearComb == ClearFilter(CombClasses, CombFilter_clear(filter))

ClearLowPass ==
    ClearFilter({"FeedbackLowPass"}, FeedbackLowPass_clear(filter))

ClearLowpassComb ==
    ClearFilter(LowpassCombClasses, LowpassFeedbackCombFilter_clear(filter))

NextFilter ==
    \/ TickComb
    \/ TickAllPass
    \/ TickLowPass
    \/ TickLowpassComb
    \/ TickLowpassAllPass
    \/ ClearComb
    \/ ClearLowPass
    \/ ClearLowpassComb

SpecFilter == InitFilter /\ [][NextFilter]_vars

\* The call log of silence after a reset: a clear(), then one or more
\* tick(0) and nothing else.
QuietAfterClear ==
    \E j \in 1..(Len(ops) - 1) :
        /\ ops[j].op = "clear"
        /\ \A i \in (j + 1)..Len(ops) : ops[i] = Call("tick", 0)

Abs(x) == IF x < 0 THEN 0 - x ELSE x

RECURSIVE Pow(_, _)
Pow(g, k) == IF k = 0 THEN 1 ELSE g * Pow(g, k - 1)

\* The number of ticks between two echoes of a CombFilter: the filter emits
\* delay.output as it was before this tick's delay.tick, one tick after the
\* Delay produced it, and a Delay of length D >= 2 produces its input D-1
\* ticks later, a Delay of length 1 one tick later.
CombPeriod == IF filter.delay.delay_length = 1 THEN 2
              ELSE filter.delay.delay_length

(***************************************************************************)
(* Claims about the recursive filters, checked under SpecFilter.           *)
(***************************************************************************)

\* C6: after any sequence of ticks followed by clear(), every subsequent
\* tick(0) leaves the output of the component equal to 0.
C6_ClearSilences ==
    QuietAfterClear => filter.output = 0

\* C7 as stated: the impulse response of a fresh CombFilter of delay length
\* D and gain g is non-zero only at ticks that are multiples of D, and at
\* tick k*D, k >= 1, its magnitude is |g|^k.
C7_CombPeriodicity ==
    (filter.kind = "CombFilter" /\ ImpulseLog) =>
        LET D == filter.delay.delay_length
        IN  IF TickIndex % D = 0
            THEN TickIndex >= D =>
                    Abs(filter.output) = Pow(Abs(filter.coeff), TickIndex \div D)
            ELSE filter.output = 0

\* C7 as amended: the impulse response of a fresh CombFilter of delay length
\* D and gain g is non-zero only at the ticks k*P, k >= 1, with P = D for
\* D >= 2 and P = 2 for D = 1, and at tick k*P its magnitude is |g|^(k-1).
C7_CombPeriodicityAmended ==
    (filter.kind = "CombFilter" /\ ImpulseLog) =>
        IF TickIndex >= CombPeriod /\ TickIndex % CombPeriod = 0
        THEN Abs(filter.output) =
                Pow(Abs(filter.coeff), (TickIndex \div CombPeriod) - 1)
        ELSE filter.output = 0

\* Witness of C7: the second echo of the impulse has just been emitted,
\* scaled once by the gain.
C7_Witness ==
    /\ filter.kind = "CombFilter"
    /\ ImpulseLog
    /\ TickIndex = 2 * CombPeriod
    /\ filter.output = filter.coeff
    /\ filter.delay.delay_length >= 2

\* The step of one tick(x) call on the component under test.
IsTickStep == Len(ops') = Len(ops) + 1 /\ ops'[Len(ops')].op = "tick"

\* The call log of a component used since its construction by tick only.
OnlyTicks == \A j \in 1..Len(ops) : ops[j].op = "tick"

\* C14: starting from a cleared FeedbackLowPass, every tick n >= 1 satisfies
\* output[n] = damp * output[n-1] + (1 - damp) * input[n]: the delayed term
\* is the filter's own output of the immediately preceding tick.
C14_OnePoleRecurrence ==
    [][(filter.kind = "FeedbackLowPass" /\ IsTickStep
            /\ OnlyTicks /\ Len(ops) >= 1) =>
        filter'.output = (filter.damp * filter.output)
                         + ((1 - filter.damp) * ops'[Len(ops')].arg)]_vars

(***************************************************************************)
(* SchroederReverb                                                         *)
(***************************************************************************)
GainPairs == {[gain_1 |-> 2, gain_2 |-> 3], [gain_1 |-> 0, gain_2 |-> 0 - 1]}

\* The allpass matrices: one <<delay_ms, coeff>> row per cascade stage.
AllpassMatrices ==
    UNION {[1..size -> DelayTimes \X Coeffs] : size \in 1..MaxStages}

SchroederReverb_init(coeffs, delay_length, allpass_matrix, sample_rate) ==
    [kind           |-> "SchroederReverb",
     size           |-> Len(allpass_matrix),
     gain_1         |-> coeffs.gain_1,
     gain_2         |-> coeffs.gain_2,
     output         |-> 0,
     allpass_reverb |-> [allpass \in 1..Len(allpass_matrix) |->
                            CombFilter_init("AllPassDelay", sample_rate,
                                            allpass_matrix[allpass][1],
                                            allpass_matrix[allpass][2])],
     delay          |-> Delay_init(sample_rate, delay_length, 0)]

\* The loop over the cascade, from stage index on: stage 1 is ticked with
\* the output of the main delay d, stage index > 1 with the output stage
\* index-1 has after its own tick.
RECURSIVE CascadeTick(_, _, _)
CascadeTick(stages, index, d) ==
    IF index > Len(stages) THEN stages
    ELSE LET input_ == IF index = 1 THEN d.output
                       ELSE stages[index - 1].output
         IN  CascadeTick([stages EXCEPT
                            ![index] = AllPassDelay_tick(stages[index], input_)],
                         index + 1, d)

\* A cascade in which every stage is fed the output its predecessor had
\* before this tick.
SchroederReverb_tick_stale_cascade(r, input_) ==
    LET d == Delay_tick(r.delay,
                        input_ + r.gain_2 * r.allpass_reverb[r.size].output)
        stages == [i \in 1..r.size |->
                    AllPassDelay_tick(r.allpass_reverb[i],
                        IF i = 1 THEN d.output
                        ELSE r.allpass_reverb[i - 1].output)]
    IN  [r EXCEPT !.delay = d,
                  !.allpass_reverb = stages,
                  !.output = (stages[r.size].output * (1 - r.gain_1 * r.gain_1))
                             + (input_ * r.gain_1 * (0 - 1))]

SchroederReverb_tick(r, input_) ==
    LET d == Delay_tick(r.delay,
                        input_ + r.gain_2 * r.allpass_reverb[r.size].output)
        stages == CascadeTick(r.allpass_reverb, 1, d)
    IN  [r EXCEPT !.delay = d,
                  !.allpass_reverb = stages,
                  !.output = (stages[r.size].output * (1 - r.gain_1 * r.gain_1))
                             + (input_ * r.gain_1 * (0 - 1))]

SchroederReverb_clear(r) ==
    [r EXCEPT !.delay = Delay_clear(r.delay),
              !.allpass_reverb = [i \in 1..r.size |->
                                    CombFilter_clear(r.allpass_reverb[i])]]

(***************************************************************************)
(* Specification of one SchroederReverb under tick and clear.              *)
(***************************************************************************)
InitReverb ==
    /\ \E sr \in SampleRates, ms \in DelayTimes, g \in GainPairs,
          m \in AllpassMatrices :
        /\ Delay_length(sr, ms, 0) >= 1
        /\ \A i \in 1..Len(m) : Delay_length(sr, m[i][1], 0) >= 1
        /\ reverb = SchroederReverb_init(g, ms, m, sr)
    /\ rb = Unbuilt
    /\ delay = Unbuilt
    /\ filter = Unbuilt
    /\ mtap = Unbuilt
    /\ ops = <<>>
    /\ err = "none"

TickReverb ==
    /\ reverb.kind = "SchroederReverb"
    /\ Len(ops) < MaxReverbOps
    /\ \E x \in Samples :
        /\ ops' = Append(ops, Call("tick", x))
        /\ reverb' = SchroederReverb_tick(reverb, x)
    /\ UNCHANGED <<rb, delay, filter, mtap, err>>

ClearReverb ==
    /\ reverb.kind = "SchroederReverb"
    /\ Len(ops) < MaxReverbOps
    /\ ops' = Append(ops, Call("clear", 0))
    /\ reverb' = SchroederReverb_clear(reverb)
    /\ UNCHANGED <<rb, delay, filter, mtap, err>>

NextReverb == TickReverb \/ ClearReverb

SpecReverb == InitReverb /\ [][NextReverb]_vars

(***************************************************************************)
(* Claims about SchroederReverb, checked under SpecReverb.                 *)
(***************************************************************************)

\* C9: a tick of the reverb with input x ticks the main delay with
\* x + gain_2 * (the output the last stage had before this tick), stage 0
\* with the output the main delay has after that, and every later stage with
\* the output its predecessor has after its tick of this same sample.
C9_TickOrder ==
    [][(Len(ops') = Len(ops) + 1 /\ ops'[Len(ops')].op = "tick") =>
        LET x == ops'[Len(ops')].arg
            last == reverb.allpass_reverb[reverb.size]
        IN  /\ reverb'.delay =
                 Delay_tick(reverb.delay, x + reverb.gain_2 * last.output)
            /\ \A i \in 1..reverb.size :
                 reverb'.allpass_reverb[i] =
                   AllPassDelay_tick(reverb.allpass_reverb[i],
                       IF i = 1 THEN reverb'.delay.output
                       ELSE reverb'.allpass_reverb[i - 1].output)]_vars

\* Witness of C9: a reverb of two stages has been ticked at least twice, and
\* after the last tick the main delay and both stages carry a non-zero
\* output.
C9_Witness ==
    /\ LastOp = "tick"
    /\ Len(ops) >= 2
    /\ reverb.size >= 2
    /\ reverb.delay.output # 0
    /\ reverb.allpass_reverb[1].output # 0
    /\ reverb.allpass_reverb[2].output # 0

(***************************************************************************)
(* Specification of one composite component, a recursive filter or a       *)
(* SchroederReverb, under tick and clear.                                  *)
(***************************************************************************)
InitComposite == InitFilter \/ InitReverb

NextComposite == NextFilter \/ NextReverb

SpecComposite == InitComposite /\ [][NextComposite]_vars

\* The buffer of Delay d has received exactly one push between d and e.
OnePush(d, e) == e.delay_line.pushes = d.delay_line.pushes + 1

(***************************************************************************)
(* Claims about all composite components, checked under SpecComposite.     *)
(***************************************************************************)

\* C15: within one tick of a composite component every RingBuffer it owns
\* receives exactly one push: the delay of a CombFilter, AllPassDelay or
\* FeedbackLowPass, the delay and the lowpass of a LowpassFeedbackCombFilter
\* or LowpassFeedbackAllPass, the main delay and every allpass stage of a
\* SchroederReverb.
C15_TickedOnce ==
    [][IsTickStep =>
        /\ filter.kind # "none" =>
            /\ OnePush(filter.delay, filter'.delay)
            /\ filter.kind \in LowpassCombClasses =>
                OnePush(filter.lowpass.delay, filter'.lowpass.delay)
        /\ reverb.kind # "none" =>
            /\ OnePush(reverb.delay, reverb'.delay)
            /\ \A i \in 1..reverb.size :
                OnePush(reverb.allpass_reverb[i].delay,
                        reverb'.allpass_reverb[i].delay)]_vars

\* Witness of C15: a reverb of two stages has been ticked at least twice
\* since construction, and each of its three buffers has received the
\* pushes of its constructor and one push per tick.
C15_Witness ==
    /\ reverb.kind = "SchroederReverb"
    /\ reverb.size >= 2
    /\ OnlyTicks
    /\ Len(ops) >= 2
    /\ reverb.delay.delay_line.pushes = reverb.delay.delay_length + 1 + Len(ops)
    /\ \A i \in 1..reverb.size :
        reverb.allpass_reverb[i].delay.delay_line.pushes =
            reverb.allpass_reverb[i].delay.delay_length + 1 + Len(ops)

(***************************************************************************)
(* Further claims about Delay, checked under SpecDelay.                    *)
(***************************************************************************)
HasClear == \E j \in 1..Len(ops) : ops[j].op = "clear"

\* The position in the call log of the last clear().
LastClear ==
    CHOOSE j \in 1..Len(ops) :
        /\ ops[j].op = "clear"
        /\ \A i \in (j + 1)..Len(ops) : ops[i].op = "tick"

\* The calls made since the last clear(), all of them ticks.
TicksSinceClear == SubSeq(ops, LastClear + 1, Len(ops))

\* The Delay d after the ticks of log, in order.
RECURSIVE Replay(_, _)
Replay(d, log) ==
    IF log = <<>> THEN d
    ELSE Replay(Delay_tick(d, Head(log).arg), Tail(log))

\* The Delay under test with every slot 0 and its write pointer on slot w.
ZeroedDelay(w) ==
    [delay EXCEPT !.delay_line.buffer = [s \in DOMAIN @ |-> 0],
                  !.delay_line.write_pointer = w,
                  !.delay_line.read_pointer = (w + 1) % delay.delay_length]

\* After a clear(), ticks of 0 only give output 0.
QuietDelay == QuietAfterClear => delay.output = 0

\* The output after a clear() and one or more ticks is the output the same
\* ticks give from a zeroed buffer whatever slot its write pointer is on.
RotationIrrelevant ==
    (HasClear /\ LastClear < Len(ops)) =>
        \A w \in 0..(delay.delay_length - 1) :
            Replay(ZeroedDelay(w), TicksSinceClear).output = delay.output

\* C16: Delay.clear() performs delay_length + 1 pushes of 0, after which
\* every slot of the buffer is 0 and every subsequent tick(0) yields output
\* 0; the extra push only rotates the write pointer by one slot and does not
\* change which values later ticks read.
C16_DelayClear ==
    /\ [](QuietDelay /\ RotationIrrelevant)
    /\ [][IsClearStep =>
            /\ delay'.delay_line.pushes =
                    delay.delay_line.pushes + delay.delay_length + 1
            /\ \A s \in DOMAIN delay'.delay_line.buffer :
                    delay'.delay_line.buffer[s] = 0
            /\ delay'.delay_line.write_pointer =
                    (delay.delay_line.write_pointer + 1) % delay.delay_length]_vars

\* Witness of C16: a Delay of length >= 2 that held a non-zero sample was
\* cleared, then ticked at least twice, the last tick giving a non-zero
\* output.
C16_Witness ==
    /\ delay.delay_length >= 2
    /\ HasClear
    /\ LastClear >= 2
    /\ ops[LastClear - 1] = Call("tick", 1)
    /\ Len(ops) >= LastClear + 2
    /\ delay.output # 0

(***************************************************************************)
(* MultiTapDelay (construction)                                            *)
(***************************************************************************)
\* The arrays delays_ms: up to MaxTaps tap times.
TapLists == UNION {[1..k -> DelayTimes] : k \in 0..MaxTaps}

\* The output of a MultiTapDelay is a sum of samples times 1 / K: the
\* fraction num / den.
Ratio(n, d) == [num |-> n, den |-> d]

RECURSIVE MaxOf(_)
MaxOf(taps) ==
    IF Len(taps) = 1 THEN taps[1]
    ELSE LET m == MaxOf(Tail(taps))
         IN  IF taps[1] > m THEN taps[1] ELSE m

\* (delays_ms * (float(sample_rate) / 1000.0)).astype(int)
MultiTapDelay_taps(sample_rate, delays_ms) ==
    [i \in 1..Len(delays_ms) |-> (delays_ms[i] * sample_rate) \div 1000]

MultiTapDelay_init(sample_rate, delays_ms) ==
    LET taps == MultiTapDelay_taps(sample_rate, delays_ms)
        len == MaxOf(taps)
    IN  [kind           |-> "MultiTapDelay",
         stereo         |-> FALSE,
         num_delay_taps |-> Len(taps),
         delay_taps     |-> taps,
         delay_length   |-> len,
         delay_line     |-> PushTimes(RingBuffer_init(len), 0, len + 1),
         output         |-> Ratio(0, 1)]

(***************************************************************************)
(* Specification of construction: nothing is built at first; a constructor *)
(* is called with any arguments, valid or not, and the object it returns   *)
(* is then used.  err holds the exception a call raised.                   *)
(***************************************************************************)
InitConfig ==
    /\ rb = Unbuilt
    /\ delay = Unbuilt
    /\ filter = Unbuilt
    /\ reverb = Unbuilt
    /\ mtap = Unbuilt
    /\ ops = <<>>
    /\ err = "none"

NothingBuilt ==
    /\ rb = Unbuilt
    /\ delay = Unbuilt
    /\ filter = Unbuilt
    /\ reverb = Unbuilt
    /\ mtap = Unbuilt
    /\ err = "none"

\* RingBuffer(length): no check of length; np.zeros(0) is a valid array.
NewRingBuffer ==
    /\ NothingBuilt
    /\ \E n \in 0..MaxLen : rb' = RingBuffer_init(n)
    /\ UNCHANGED <<delay, filter, reverb, mtap, ops, err>>

\* CombFilter(sample_rate, delay_ms, coeff): no check of coeff; a delay of
\* 0 samples fails in Delay.__init__, whose clear() pushes on an empty
\* buffer.
NewCombFilter ==
    /\ NothingBuilt
    /\ \E sr \in SampleRates, ms \in 0..MaxLen, c \in Coeffs :
        IF Delay_length(sr, ms, 0) = 0
        THEN /\ err' \in PushErrors
             /\ filter' = filter
        ELSE /\ err' = err
             /\ filter' = CombFilter_init("CombFilter", sr, ms, c)
    /\ UNCHANGED <<rb, delay, reverb, mtap, ops>>

\* MultiTapDelay(sample_rate, delays_ms): max() of no taps raises
\* ValueError; a longest tap of 0 samples fails in clear() as above.
NewMultiTapDelay ==
    /\ NothingBuilt
    /\ \E sr \in SampleRates, ms \in TapLists :
        IF Len(ms) = 0
        THEN /\ err' = "ValueError"
             /\ mtap' = mtap
        ELSE IF MaxOf(MultiTapDelay_taps(sr, ms)) = 0
        THEN /\ err' \in PushErrors
             /\ mtap' = mtap
        ELSE /\ err' = err
             /\ mtap' = MultiTapDelay_init(sr, ms)
    /\ UNCHANGED <<rb, delay, filter, reverb, ops>>

NextConfig ==
    \/ NewRingBuffer
    \/ NewCombFilter
    \/ NewMultiTapDelay
    \/ Push
    \/ Clear
    \/ TickComb
    \/ ClearComb

SpecConfig == InitConfig /\ [][NextConfig]_vars

(***************************************************************************)
(* Claims about construction, checked under SpecConfig.                    *)
(***************************************************************************)

\* C10: a configuration error (a RingBuffer of capacity 0, a MultiTapDelay
\* without taps, a coefficient out of range) is raised by the constructor
\* itself: no call made on a constructed object raises an error.
C10_FailAtConstruction ==
    err # "none" => ops = <<>>

(***************************************************************************)
(* MultiTapDelay (tick and clear)                                          *)
(***************************************************************************)
\* The sum of delay_line[delay_taps[k]] over the taps k..K.
RECURSIVE SumTaps(_, _)
SumTaps(m, k) ==
    IF k > m.num_delay_taps THEN 0
    ELSE RingBuffer_getitem(m.delay_line, m.delay_taps[k]) + SumTaps(m, k + 1)

MultiTapDelay_tick(m, input_) ==
    [m EXCEPT !.output = Ratio(SumTaps(m, 1), m.num_delay_taps),
              !.delay_line = RingBuffer_push(m.delay_line, input_)]

MultiTapDelay_clear(m) ==
    [m EXCEPT !.delay_line = PushTimes(m.delay_line, 0, m.delay_length + 1)]

(***************************************************************************)
(* Specification of one MultiTapDelay under tick and clear.                *)
(***************************************************************************)
InitMultiTap ==
    /\ \E sr \in SampleRates, ms \in TapLists :
        /\ Len(ms) >= 1
        /\ MaxOf(MultiTapDelay_taps(sr, ms)) >= 1
        /\ mtap = MultiTapDelay_init(sr, ms)
    /\ rb = Unbuilt
    /\ delay = Unbuilt
    /\ filter = Unbuilt
    /\ reverb = Unbuilt
    /\ ops = <<>>
    /\ err = "none"

TickMultiTap ==
    /\ mtap.kind = "MultiTapDelay"
    /\ Len(ops) < MaxOps
    /\ \E x \in Samples :
        /\ ops' = Append(ops, Call("tick", x))
        /\ mtap' = MultiTapDelay_tick(mtap, x)
    /\ UNCHANGED <<rb, delay, filter, reverb, err>>

ClearMultiTap ==
    /\ mtap.kind = "MultiTapDelay"
    /\ Len(ops) < MaxOps
    /\ ops' = Append(ops, Call("clear", 0))
    /\ mtap' = MultiTapDelay_clear(mtap)
    /\ UNCHANGED <<rb, delay, filter, reverb, err>>

NextMultiTap == TickMultiTap \/ ClearMultiTap

SpecMultiTap == InitMultiTap /\ [][NextMultiTap]_vars

\* The taps are distinct offsets of at least one sample.
DistinctTaps ==
    /\ \A k \in 1..mtap.num_delay_taps : mtap.delay_taps[k] >= 1
    /\ \A j \in 1..mtap.num_delay_taps, k \in 1..mtap.num_delay_taps :
        j # k => mtap.delay_taps[j] # mtap.delay_taps[k]

(***************************************************************************)
(* Claims about MultiTapDelay, checked under SpecMultiTap.                 *)
(***************************************************************************)

\* C19: a fresh MultiTapDelay with K >= 1 distinct tap offsets t_1..t_K, each
\* >= 1, fed a unit impulse at tick 0 and zeros afterwards, outputs 1/K
\* after exactly the ticks t_1..t_K and 0 after every other tick.
C19_MultiTapLatency ==
    (ImpulseLog /\ DistinctTaps) =>
        IF \E k \in 1..mtap.num_delay_taps : mtap.delay_taps[k] = TickIndex
        THEN mtap.output.num * mtap.num_delay_taps = mtap.output.den
        ELSE mtap.output.num = 0

(***************************************************************************)
(* Claim about the construction of Delay, checked under SpecDelay.         *)
(***************************************************************************)

\* C17: the capacity of the RingBuffer of every constructed Delay is at
\* least its tap distance in samples plus 2.
C17_BufferSizing ==
    delay.delay_line.length >= delay.delay_length + 2

====
